---- MODULE Spec2Model ----
(***************************************************************************)
(* Particle Swarm Optimization solver (pso.c / pso.h).                     *)
(*                                                                         *)
(* pso_solve is modelled as a sequential state machine: one action per     *)
(* phase of the function (setup, one particle of the initialization loop,  *)
(* the head of one iteration of the main loop, one particle of the sweep,  *)
(* the end of an iteration, the exit of the loop).                         *)
(*                                                                         *)
(* Numbers.  A C double is modelled as an integer on a grid, or NaN.       *)
(* Positions, velocities and fitness values live on a grid of unit 1;      *)
(* the weights w, c1, c2, w_min, w_max live on a grid of unit 1/WUnit.     *)
(* A product weight * value is rounded to the nearest point of the         *)
(* position grid, as the hardware rounds to the nearest double.  NaN       *)
(* propagates through arithmetic and makes every comparison false.         *)
(* rand() is modelled by its two extreme results, 0 and RAND_MAX.          *)
(***************************************************************************)
EXTENDS Integers, Sequences, FiniteSets, TLC

\* ------------------------------------------------------------------ bounds
MaxSteps == 2
RandSteps == 3
MaxFit == 2
SmallSize == 2
RingSize == 3
MaxDim == 2
HalfRange == 1
MaxNewDim == 8

\* --------------------------------------------------------- program constants
PSO_NHOOD_GLOBAL == 0
PSO_NHOOD_RING == 1
PSO_NHOOD_RANDOM == 2
PSO_W_CONST == 0
PSO_W_LIN_DEC == 1
WUnit == 10000
PSO_INERTIA == 7298
DefaultC == 14960
DefaultWMin == 3000
DBL_MAX == 1000000
NaN == -999999
Inf == 2000000
PSO_MAX_SIZE == 100

\* ------------------------------------------------------- double arithmetic
Add(a, b) == IF a = NaN \/ b = NaN THEN NaN ELSE a + b

Sub(a, b) == IF a = NaN \/ b = NaN THEN NaN ELSE a - b

\* a < b on doubles: false as soon as one side is NaN
Lt(a, b) == a # NaN /\ b # NaN /\ a < b

Gt(a, b) == a # NaN /\ b # NaN /\ a > b

Le(a, b) == a # NaN /\ b # NaN /\ a <= b

\* k / m on doubles, the result on the weight grid; 0.0/0 is NaN
DivD(k, m) ==
    IF k = NaN \/ m = NaN THEN NaN
    ELSE IF m = 0 THEN (IF k = 0 THEN NaN ELSE IF k > 0 THEN DBL_MAX ELSE -DBL_MAX)
    ELSE k \div m

\* weight (unit 1/WUnit) times value (unit 1), rounded to the nearest grid point
MulW(wt, x) ==
    IF wt = NaN \/ x = NaN THEN NaN
    ELSE (2 * wt * x + WUnit) \div (2 * WUnit)

\* C fmod(x, y): the remainder has the sign of x; fmod(x, 0) is NaN
Fmod(x, y) ==
    IF x = NaN \/ y = NaN \/ y = 0 THEN NaN
    ELSE LET ay == IF y < 0 THEN -y ELSE y
         IN  IF x >= 0 THEN x % ay ELSE -((-x) % ay)

\* RNG_UNIFORM(): rand()/RAND_MAX for rand() = 0 and rand() = RAND_MAX
RngVals == {0, 1}

\* RNG_UNIFORM_INT(s): rand() % s
RngInts(s) == 0 .. (s - 1)

\* the values an objective function returns (finite, lower is better)
FitVals == 0 .. MaxFit

\* the values an objective function returns that breaks down at some points:
\* NaN and +infinity besides the finite ones
AnomalousVals == FitVals \cup {NaN, Inf}

\* malloc: no allocation fails
NoFailure == [blk |-> "none", row |-> -1]

\* the surroundings of an ordinary call: a finite objective, enough memory
NormalEnv == [objVals |-> FitVals, oom |-> NoFailure]

\* no call of pso_settings_new has been made
NoCall == [dim |-> 0, range_lo |-> 0, range_hi |-> 0]

\* ------------------------------------------------------------------- state
VARIABLES
    settings,   \* pso_settings_t: the caller's configuration
    solError,   \* solution->error
    gbest,      \* solution->gbest
    pos,        \* pos[i][d]
    vel,        \* vel[i][d]
    pos_b,      \* pos_b[i][d]: personal best positions
    fit,        \* fit[i]
    fit_b,      \* fit_b[i]: personal best fitness
    pos_nb,     \* pos_nb[i][d]: informant positions
    comm,       \* comm[i*size + j] # 0: particle i informs particle j
    improved,   \* the improved flag of pso_solve
    w,          \* the inertia weight of pso_solve
    step,       \* the loop variable step
    i,          \* the loop variable i
    pc,         \* the position in pso_solve
    \* history variables: they record what happened and steer nothing
    settings0,  \* the settings at the call
    calls,      \* the number of calls of obj_fun
    evalArg,    \* the position vector handed to the latest call of obj_fun
    minSeen,    \* minSeen[i]: the least value obj_fun returned for particle i
    argSeen,    \* argSeen[i]: the positions of particle i where it returned minSeen[i]
    raw,        \* the new position of the latest updated particle before boundary handling
    lastUpd,    \* the particle updated latest in the current sweep, or -1
    regen,      \* init_comm_random ran in the latest call of inform_fun
    errStart,   \* solution->error when the current sweep began
    lowered,    \* the latest completed sweep ended with a lower solution->error than it began
    commPrev,   \* the connectivity matrix the previous iteration used
    passed,     \* the number of goal tests that found solution->error above the goal
    outcome,    \* how the loop was left
    nbUsed,     \* the informant position the latest velocity update read
    \* the surroundings of the call
    env,        \* objVals: the values obj_fun can return; oom: the malloc call that returns NULL
    heap,       \* the blocks malloc handed out that were not freed
    fault,      \* the undefined behaviour that has happened, or "none"
    newArgs     \* the arguments of the call of pso_settings_new

vars == <<settings, solError, gbest, pos, vel, pos_b, fit, fit_b, pos_nb, comm,
          improved, w, step, i, pc, settings0, calls, evalArg, minSeen, argSeen,
          raw, lastUpd, regen, errStart, lowered, commPrev, passed, outcome,
          nbUsed, env, heap, fault, newArgs>>

\* the indices of a vector of dim doubles, of an array of size particles
Dims(s) == 0 .. (s.dim - 1)

Particles(s) == 0 .. (s.size - 1)

ZeroVec(s) == [d \in Dims(s) |-> 0]

ZeroMat(s) == [p \in Particles(s) |-> ZeroVec(s)]

\* the settings pso_settings_new builds for dim dm and the range [0, 2*HalfRange],
\* with the fields a caller then sets drawn from the given sets
Family(dm, sizes, stepss, clamps, nhoods, wstrats) ==
    [dim : {dm},
     range_lo : {[d \in 0 .. (dm - 1) |-> 0]},
     range_hi : {[d \in 0 .. (dm - 1) |-> 2 * HalfRange]},
     goal : {0},
     size : sizes,
     print_every : {0},
     steps : stepss,
     step : {-1},
     c1 : {DefaultC},
     c2 : {DefaultC},
     w_max : {PSO_INERTIA},
     w_min : {DefaultWMin},
     clamp_pos : clamps,
     nhood_strategy : nhoods,
     nhood_size : {1},
     w_strategy : wstrats]

\* the configurations explored: a swarm of SmallSize particles under every
\* boundary policy, inertia strategy and step budget; a ring of RingSize
\* particles; a random topology over RandSteps iterations; a swarm in MaxDim
\* dimensions
Configs ==
    Family(1, {SmallSize}, 0 .. MaxSteps, {0, 1}, {PSO_NHOOD_GLOBAL},
           {PSO_W_CONST, PSO_W_LIN_DEC})
    \cup Family(1, {RingSize}, {MaxSteps}, {1}, {PSO_NHOOD_RING}, {PSO_W_CONST})
    \cup Family(1, {SmallSize}, {RandSteps}, {1}, {PSO_NHOOD_RANDOM}, {PSO_W_CONST})
    \cup Family(MaxDim, {SmallSize}, {1}, {1}, {PSO_NHOOD_GLOBAL}, {PSO_W_CONST})

\* the state at the call of pso_solve: the caller's settings and result buffer;
\* the solver's arrays do not exist yet and are written before they are read
InitIn(cfgs, envs) ==
    /\ settings \in cfgs
    /\ env \in envs
    /\ heap = {}
    /\ fault = "none"
    /\ newArgs = NoCall
    /\ nbUsed = ZeroVec(settings)
    /\ settings0 = settings
    /\ solError = 0
    /\ gbest = ZeroVec(settings)
    /\ pos = ZeroMat(settings) /\ vel = ZeroMat(settings)
    /\ pos_b = ZeroMat(settings) /\ pos_nb = ZeroMat(settings)
    /\ fit = [p \in Particles(settings) |-> 0]
    /\ fit_b = [p \in Particles(settings) |-> 0]
    /\ comm = [k \in 0 .. (settings.size * settings.size - 1) |-> 0]
    /\ improved = 0
    /\ w = PSO_INERTIA
    /\ step = 0
    /\ i = 0
    /\ pc = "setup"
    /\ calls = 0
    /\ evalArg = ZeroVec(settings)
    /\ minSeen = [p \in Particles(settings) |-> DBL_MAX]
    /\ argSeen = [p \in Particles(settings) |-> {}]
    /\ raw = ZeroVec(settings)
    /\ lastUpd = -1
    /\ regen = FALSE
    /\ errStart = 0
    /\ lowered = FALSE
    /\ commPrev = comm
    /\ passed = 0
    /\ outcome = "running"

\* an ordinary call: a finite objective, enough memory
InitWith(cfgs) == InitIn(cfgs, {NormalEnv})

Init == InitWith(Configs)

\* --------------------------------------------------------------- topologies
\* (mutant) the first particle does not reach around to the last one
RingWritesNoWrap(p, n) ==
    {p * n + p} \cup
    (IF p = n - 1 THEN {p * n, p * n + p - 1}
     ELSE IF p = 0 THEN {p * n + p + 1}
     ELSE {p * n + p + 1, p * n + p - 1})

\* the indices init_comm_ring sets to 1 in iteration i of its loop
RingWrites(p, n) ==
    {p * n + p} \cup
    (IF p = 0 THEN {p * n + p + 1, (p + 1) * n - 1}
     ELSE IF p = n - 1 THEN {p * n, p * n + p - 1}
     ELSE {p * n + p + 1, p * n + p - 1})

init_comm_ring(n) ==
    [k \in 0 .. (n * n - 1) |->
        IF \E p \in 0 .. (n - 1) : k \in RingWrites(p, n) THEN 1 ELSE 0]

\* init_comm_random with tgt[p][k] the k-th index drawn for particle p
init_comm_random(tgt, n, nh) ==
    [k \in 0 .. (n * n - 1) |->
        IF \E p \in 0 .. (n - 1) :
              \/ k = p * n + p
              \/ \E q \in 0 .. (nh - 1) : k = p * n + tgt[p][q]
        THEN 1 ELSE 0]

RandomDraws(n, nh) == [0 .. (n - 1) -> [0 .. (nh - 1) -> RngInts(n)]]

\* the scan of inform for particle j: b_n after the informers p .. n-1 were looked at
RECURSIVE BestInformer(_, _, _, _, _, _)
BestInformer(c, fb, j, p, b_n, n) ==
    IF p >= n THEN b_n
    ELSE BestInformer(c, fb, j, p + 1,
                      IF c[p * n + j] # 0 /\ Lt(fb[p], fb[b_n]) THEN p ELSE b_n, n)

\* (mutant) the scan starts from the first particle, not from j itself
informFromFirst(c, pb, fb, n) ==
    [j \in 0 .. (n - 1) |-> pb[BestInformer(c, fb, j, 0, 0, n)]]

\* inform: pos_nb[j] becomes the personal best position of j's best informer
inform(c, pb, fb, n) ==
    [j \in 0 .. (n - 1) |-> pb[BestInformer(c, fb, j, 0, j, n)]]

\* inform_global: every pos_nb[j] becomes gbest
inform_global(g, n) == [j \in 0 .. (n - 1) |-> g]

\* ----------------------------------------------------------------- inertia
calc_inertia_lin_dec(st, s) ==
    LET dec_stage == (3 * s.steps) \div 4
    IN  IF st <= dec_stage
        THEN Add(s.w_min, DivD((s.w_max - s.w_min) * (dec_stage - st), dec_stage))
        ELSE s.w_min

\* -------------------------------------------------------- history helpers
\* f is a number: neither NaN nor infinity
IsFinite(f) == f \notin {NaN, Inf}

\* the record of obj_fun returning f at position x for particle p: the least
\* finite value it returned and the positions where it did
SeenMin(p, f) == IF IsFinite(f) /\ f < minSeen[p] THEN f ELSE minSeen[p]

SeenArg(p, x, f) ==
    IF IsFinite(f) /\ f < minSeen[p] THEN {x}
    ELSE IF IsFinite(f) /\ f = minSeen[p] THEN argSeen[p] \cup {x}
    ELSE argSeen[p]

\* ----------------------------------------------------------------- actions
\* pso_solve up to the initialization loop: the arrays are allocated, the
\* strategies chosen, the connectivity matrix built, solution->error reset
\* the malloc calls of pso_solve in their order; a matrix is one call of
\* pso_matrix_new, which allocates the row pointers and then every row
SolveBlocks == <<"pos", "vel", "pos_b", "fit", "fit_b", "pos_nb", "comm">>

Matrices == {"pos", "vel", "pos_b", "pos_nb"}

\* the blocks allocated by the calls before the one for block b
BlocksBefore(b) ==
    {SolveBlocks[q] : q \in {r \in 1 .. Len(SolveBlocks) :
                                \E t \in (r + 1) .. Len(SolveBlocks) : SolveBlocks[t] = b}}

\* every block of pso_solve that malloc did hand out
BlocksGot(e) ==
    {SolveBlocks[q] : q \in 1 .. Len(SolveBlocks)}
        \ (IF e.oom.row = -1 THEN {e.oom.blk} ELSE {})

\* every index of comm that init_comm_ring writes
RingAccesses(n) == UNION {RingWrites(p, n) : p \in 0 .. (n - 1)}

\* what goes wrong before the initialization loop: pso_matrix_new stores the
\* rows through the pointer malloc returned without testing it, memset in
\* init_comm_ring and init_comm_random writes through comm without a test,
\* init_comm_ring writes comm[i*size+i+1] whatever the size
SetupFault(e, s) ==
    IF e.oom.blk \in Matrices /\ e.oom.row = -1 /\ s.size > 0
        THEN "null_dereference"
    ELSE IF e.oom.blk = "comm" /\ s.size # 0
            /\ s.nhood_strategy \in {PSO_NHOOD_RING, PSO_NHOOD_RANDOM}
        THEN "null_dereference"
    ELSE IF s.nhood_strategy = PSO_NHOOD_RING
            /\ ~(RingAccesses(s.size) \subseteq 0 .. (s.size * s.size - 1))
        THEN "out_of_bounds"
    ELSE "none"

\* the blocks held when the initialization loop is reached or the process dies
\* (malloc of a negative number of elements asks for more than there is)
SetupHeap(e, s) ==
    IF e.oom.blk \in Matrices /\ e.oom.row = -1 /\ s.size > 0
    THEN BlocksBefore(e.oom.blk)
    ELSE IF s.size < 0 THEN {"comm"} \ {e.oom.blk}
    ELSE BlocksGot(e)

\* where pso_solve goes on after its setup: a write through a null pointer
\* ends the process; a write past the end of comm ends it in a build that
\* checks the heap and goes unnoticed otherwise
SetupExits(e, s) ==
    LET on == IF s.size > 0 THEN "init" ELSE "loop"
    IN  IF SetupFault(e, s) = "null_dereference" THEN {"crashed"}
        ELSE IF SetupFault(e, s) = "out_of_bounds" THEN {"crashed", on}
        ELSE {on}

Setup ==
    /\ pc = "setup"
    /\ \E tgt \in (IF settings.nhood_strategy = PSO_NHOOD_RANDOM
                   THEN RandomDraws(settings.size, settings.nhood_size)
                   ELSE {<<>>}) :
          comm' = IF settings.nhood_strategy = PSO_NHOOD_RING
                    THEN init_comm_ring(settings.size)
                  ELSE IF settings.nhood_strategy = PSO_NHOOD_RANDOM
                    THEN init_comm_random(tgt, settings.size, settings.nhood_size)
                  ELSE comm
    /\ fault' = SetupFault(env, settings)
    /\ heap' = SetupHeap(env, settings)
    /\ \E exit \in SetupExits(env, settings) :
          /\ pc' = exit
          /\ solError' = IF exit = "crashed" THEN solError ELSE DBL_MAX
    /\ improved' = 0
    /\ w' = PSO_INERTIA
    /\ i' = 0
    /\ UNCHANGED <<settings, gbest, pos, vel, pos_b, fit, fit_b, pos_nb, step,
                   settings0, calls, evalArg, minSeen, argSeen, raw, lastUpd,
                   regen, errStart, lowered, commPrev, passed, outcome,
                   nbUsed, env, newArgs>>

\* a uniform draw u in [range_lo[d], range_hi[d]]
Scaled(s, d, u) == s.range_lo[d] + (s.range_hi[d] - s.range_lo[d]) * u

\* (mutant) the comparison is missing: the latest particle is always taken
InitBestNoTest(f, x, err, g) == <<f, x>>

\* the global best after obj_fun returned f at x in the initialization loop
InitBest(f, x, err, g) == IF Lt(f, err) THEN <<f, x>> ELSE <<err, g>>

\* one iteration of the initialization loop: particle i gets its position,
\* velocity and personal best, is evaluated, and may become the global best
\* what goes wrong in the iteration for particle p: the rows of pos, pos_b and
\* vel and the vectors fit and fit_b are written without a test of the pointer
InitFault(e, s, p) ==
    IF e.oom.blk \in {"pos", "vel", "pos_b"} /\ e.oom.row = p /\ s.dim > 0 THEN "row"
    ELSE IF e.oom.blk \in {"fit", "fit_b"} THEN "vector"
    ELSE "none"

InitParticle ==
    /\ pc = "init"
    /\ i < settings.size
    /\ IF InitFault(env, settings, i) # "none"
       THEN /\ pc' = "crashed"
            /\ fault' = "null_dereference"
            /\ calls' = IF InitFault(env, settings, i) = "vector" THEN calls + 1 ELSE calls
            /\ UNCHANGED <<pos, pos_b, vel, fit, fit_b, solError, gbest, evalArg,
                           minSeen, argSeen, i, step>>
       ELSE /\ \E ua, ub \in [Dims(settings) -> RngVals], f \in env.objVals :
                  LET a == [d \in Dims(settings) |-> Scaled(settings, d, ua[d])]
                      b == [d \in Dims(settings) |-> Scaled(settings, d, ub[d])]
                  IN  /\ pos' = [pos EXCEPT ![i] = a]
                      /\ pos_b' = [pos_b EXCEPT ![i] = a]
                      /\ vel' = [vel EXCEPT ![i] =
                                    [d \in Dims(settings) |-> (a[d] - b[d]) \div 2]]
                      /\ fit' = [fit EXCEPT ![i] = f]
                      /\ fit_b' = [fit_b EXCEPT ![i] = f]
                      /\ solError' = InitBest(f, a, solError, gbest)[1]
                      /\ gbest' = InitBest(f, a, solError, gbest)[2]
                      /\ calls' = calls + 1
                      /\ evalArg' = a
                      /\ minSeen' = [minSeen EXCEPT ![i] = SeenMin(i, f)]
                      /\ argSeen' = [argSeen EXCEPT ![i] = SeenArg(i, a, f)]
            /\ i' = i + 1
            /\ pc' = IF i + 1 < settings.size THEN "init" ELSE "loop"
            /\ step' = 0
            /\ UNCHANGED fault
    /\ UNCHANGED <<settings, pos_nb, comm, improved, w, settings0, raw, lastUpd,
                   regen, errStart, lowered, commPrev, passed, outcome,
                   nbUsed, env, heap, newArgs>>

\* the inertia weight of one iteration
Inertia(st, s, old) ==
    IF s.w_strategy = PSO_W_LIN_DEC THEN calc_inertia_lin_dec(st, s) ELSE old

\* inform_random regenerates the matrix when the flag it is handed is 0
Regenerates(s, flag) == s.nhood_strategy = PSO_NHOOD_RANDOM /\ flag = 0

\* (mutant) the flag is not reset
ResetImprovedNot(flag) == flag

\* the flag after inform_fun returned
ResetImproved(flag) == 0

\* (mutant) the step is written to the field steps
RecordStepInSteps(s, st) == [s EXCEPT !.steps = st]

\* settings->step = step
RecordStep(s, st) == [s EXCEPT !.step = st]

\* (mutant) the stop criterion is strict
GoalReachedStrict(err, goal) == Lt(err, goal)

\* the stop criterion: solution->error <= settings->goal
GoalReached(err, goal) == Le(err, goal)

\* the head of one iteration of the main loop: the step is recorded, the
\* inertia computed, the goal tested; then the informants are computed
\* what goes wrong in inform_fun: the rows of pos_nb are written without a
\* test of the pointer
InformFault(e, s) == e.oom.blk = "pos_nb" /\ e.oom.row \in Particles(s) /\ s.dim > 0

StepBegin ==
    /\ pc = "loop"
    /\ step < settings.steps
    /\ settings' = RecordStep(settings, step)
    /\ w' = Inertia(step, settings', w)
    /\ IF GoalReached(solError, settings'.goal)
       THEN /\ pc' = "done"
            /\ outcome' = "GoalReached"
            /\ heap' = {}
            /\ UNCHANGED <<pos_nb, comm, improved, i, regen, errStart, lastUpd,
                           commPrev, passed, fault>>
       ELSE IF InformFault(env, settings)
       THEN /\ pc' = "crashed"
            /\ fault' = "null_dereference"
            /\ UNCHANGED <<pos_nb, comm, improved, i, regen, errStart, lastUpd,
                           commPrev, passed, outcome, heap>>
       ELSE /\ \E tgt \in (IF Regenerates(settings, improved)
                           THEN RandomDraws(settings.size, settings.nhood_size)
                           ELSE {<<>>}) :
                  /\ comm' = IF Regenerates(settings, improved)
                             THEN init_comm_random(tgt, settings.size, settings.nhood_size)
                             ELSE comm
                  /\ pos_nb' = IF settings.nhood_strategy \in {PSO_NHOOD_RING, PSO_NHOOD_RANDOM}
                               THEN inform(comm', pos_b, fit_b, settings.size)
                               ELSE inform_global(gbest, settings.size)
            /\ regen' = Regenerates(settings, improved)
            /\ commPrev' = comm
            /\ passed' = IF Gt(solError, settings.goal) THEN passed + 1 ELSE passed
            /\ improved' = ResetImproved(improved)
            /\ i' = 0
            /\ errStart' = solError
            /\ lastUpd' = -1
            /\ pc' = "sweep"
            /\ UNCHANGED <<outcome, heap, fault>>
    /\ UNCHANGED <<solError, gbest, pos, vel, pos_b, fit, fit_b, step, settings0,
                   calls, evalArg, minSeen, argSeen, raw, lowered, nbUsed, env,
                   newArgs>>

\* the velocity update of one coordinate
NewVel(wt, s, v, x, pb, nb, u1, u2) ==
    Add(Add(MulW(wt, v), MulW(s.c1 * u1, Sub(pb, x))), MulW(s.c2 * u2, Sub(nb, x)))

\* the boundary handling of one coordinate: <<position, velocity>> afterwards
Boundary(s, d, x, v) ==
    LET lo == s.range_lo[d]
        hi == s.range_hi[d]
    IN  IF s.clamp_pos # 0
        THEN IF Lt(x, lo) THEN <<lo, 0>>
             ELSE IF Gt(x, hi) THEN <<hi, 0>>
             ELSE <<x, v>>
        ELSE IF Lt(x, lo) THEN <<Sub(hi, Fmod(Sub(lo, x), hi - lo)), 0>>
             ELSE IF Gt(x, hi) THEN <<Add(lo, Fmod(Sub(x, hi), hi - lo)), 0>>
             ELSE <<x, v>>

\* (mutant) the velocity update reads the global best as it stands
InformantReadLive(nb, g) == g

\* the informant position the velocity update of a particle reads: its row of pos_nb
InformantRead(nb, g) == nb

\* (mutant) obj_fun is handed the position from before the move
EvalPointBefore(moved, before) == before

\* the position handed to obj_fun in the sweep: the particle's position after
\* all its coordinates were moved and boundary-handled
EvalPoint(moved, before) == moved

\* (mutant) the comparison is missing: the personal best follows the particle
PersonalBestNoTest(f, x, fb, pb) == <<f, x>>

\* the personal best after obj_fun returned f at x: <<fit_b, pos_b>>
PersonalBest(f, x, fb, pb) == IF Lt(f, fb) THEN <<f, x>> ELSE <<fb, pb>>

\* (mutant) the comparison is missing: the global best follows the latest particle
GlobalBestNoTest(f, x, err, g, flag) == <<f, x, 1>>

\* (mutant) the error is lowered and the position is not copied
GlobalBestErrorOnly(f, x, err, g, flag) ==
    IF Lt(f, err) THEN <<f, g, 1>> ELSE <<err, g, flag>>

\* the global best after obj_fun returned f at x: <<error, gbest, improved>>
GlobalBest(f, x, err, g, flag) == IF Lt(f, err) THEN <<f, x, 1>> ELSE <<err, g, flag>>

\* one iteration of the sweep: particle i is moved in every dimension,
\* evaluated once, and its personal best and the global best are updated
UpdateParticle ==
    /\ pc = "sweep"
    /\ i < settings.size
    /\ \E u1, u2 \in [Dims(settings) -> RngVals] :
          LET nb == InformantRead(pos_nb[i], gbest)
              nv == [d \in Dims(settings) |-> NewVel(w, settings, vel[i][d], pos[i][d],
                                           pos_b[i][d], nb[d], u1[d], u2[d])]
              np == [d \in Dims(settings) |-> Add(pos[i][d], nv[d])]
              bd == [d \in Dims(settings) |-> Boundary(settings, d, np[d], nv[d])]
              x  == [d \in Dims(settings) |-> bd[d][1]]
              at == EvalPoint(x, pos[i])
          IN  \E f \in env.objVals :
                LET pbest == PersonalBest(f, x, fit_b[i], pos_b[i])
                    gb == GlobalBest(f, x, solError, gbest, improved)
                IN  /\ pos' = [pos EXCEPT ![i] = x]
                    /\ vel' = [vel EXCEPT ![i] = [d \in Dims(settings) |-> bd[d][2]]]
                    /\ fit' = [fit EXCEPT ![i] = f]
                    /\ fit_b' = [fit_b EXCEPT ![i] = pbest[1]]
                    /\ pos_b' = [pos_b EXCEPT ![i] = pbest[2]]
                    /\ solError' = gb[1]
                    /\ gbest' = gb[2]
                    /\ improved' = gb[3]
                    /\ calls' = calls + 1
                    /\ evalArg' = at
                    /\ minSeen' = [minSeen EXCEPT ![i] = SeenMin(i, f)]
                    /\ argSeen' = [argSeen EXCEPT ![i] = SeenArg(i, at, f)]
                    /\ raw' = np
                    /\ nbUsed' = nb
    /\ lastUpd' = i
    /\ i' = i + 1
    /\ UNCHANGED <<settings, pos_nb, comm, w, step, pc, settings0, regen,
                   errStart, lowered, commPrev, passed, outcome, env, heap,
                   fault, newArgs>>

\* the end of one iteration of the main loop: progress is printed, step++
StepEnd ==
    /\ pc = "sweep"
    /\ i >= settings.size
    /\ step' = step + 1
    /\ pc' = "loop"
    /\ lowered' = Lt(solError, errStart)
    /\ lastUpd' = -1
    /\ raw' = ZeroVec(settings)
    /\ nbUsed' = ZeroVec(settings)
    /\ UNCHANGED <<settings, solError, gbest, pos, vel, pos_b, fit, fit_b, pos_nb,
                   comm, improved, w, i, settings0, calls, evalArg, minSeen,
                   argSeen, regen, errStart, commPrev, passed, outcome, env,
                   heap, fault, newArgs>>

\* the loop condition fails: the arrays are freed and pso_solve returns
LoopExit ==
    /\ pc = "loop"
    /\ step >= settings.steps
    /\ pc' = "done"
    /\ outcome' = "Exhausted"
    /\ heap' = {}
    /\ UNCHANGED <<settings, solError, gbest, pos, vel, pos_b, fit, fit_b, pos_nb,
                   comm, improved, w, step, i, settings0, calls, evalArg, minSeen,
                   argSeen, raw, lastUpd, regen, errStart, lowered, commPrev, passed,
                   nbUsed, env, fault, newArgs>>

Next == Setup \/ InitParticle \/ StepBegin \/ UpdateParticle \/ StepEnd \/ LoopExit

Spec == Init /\ [][Next]_vars

\* the configurations termination is checked on: SmallSize particles, every
\* step budget, every topology
TerminationConfigs ==
    Family(1, {SmallSize}, 0 .. MaxSteps, {0, 1}, {PSO_NHOOD_GLOBAL},
           {PSO_W_CONST, PSO_W_LIN_DEC})
    \cup Family(1, {SmallSize}, 0 .. MaxSteps, {1}, {PSO_NHOOD_RING, PSO_NHOOD_RANDOM},
                {PSO_W_CONST})

\* pso_solve is sequential code: whenever a step is possible it is taken
FairSpec == InitWith(TerminationConfigs) /\ [][Next]_vars /\ WF_vars(Next)

\* ================================================================== claims
MinOf(S) == CHOOSE x \in S : \A y \in S : x <= y

\* particle p went through the initialization loop
Initialized(p) == pc \in {"loop", "sweep", "done"} \/ (pc = "init" /\ p < i)

\* the initialization loop is over and no iteration of the main loop has begun
InitDone == pc = "loop" /\ step = 0

\* C1: from the end of the initialization on, no step of pso_solve raises
\* solution->error: its value after the step is at most its value before.
C1_BestErrorNeverIncreases ==
    [][(pc \in {"loop", "sweep", "done"}) => Le(solError', solError)]_vars

\* a particle update of the sweep lowered solution->error
C1_Witness ==
    /\ pc = "sweep"
    /\ lastUpd >= 0
    /\ Lt(solError, errStart)
    /\ solError = fit[lastUpd]

\* C2: fit_b[p] never increases, and after every step it is the least value
\* obj_fun returned at a position of particle p (the initial one included),
\* with pos_b[p] a position where obj_fun returned that value.
C2_PersonalBestIsMinimumSeen ==
    [][\A p \in Particles(settings) :
          /\ Initialized(p) => Le(fit_b'[p], fit_b[p])
          /\ Initialized(p)' => fit_b'[p] = minSeen'[p] /\ pos_b'[p] \in argSeen'[p]]_vars

\* a particle that improved on its initial fitness in one sweep and was then
\* moved to a worse position in the next: its personal best stays behind
C2_Witness ==
    \E p \in Particles(settings) :
        /\ pc = "sweep" /\ lastUpd = p /\ step >= 1
        /\ Lt(fit_b[p], fit[p])
        /\ pos_b[p] # pos[p]
        /\ argSeen[p] = {pos_b[p]}

\* C3: when the initialization loop is over, solution->error is the least of
\* the values obj_fun returned at the initial positions, and solution->gbest
\* is the initial position of a particle where it returned that value.
C3_InitialBestIsMinimum ==
    InitDone =>
        /\ solError = MinOf({minSeen[p] : p \in Particles(settings)})
        /\ \E p \in Particles(settings) :
              minSeen[p] = solError /\ gbest = pos[p] /\ argSeen[p] = {pos[p]}

\* the initialization ended with the best particle not the first one
C3_Witness ==
    /\ InitDone
    /\ \E p \in Particles(settings) : p > 0 /\ minSeen[p] < minSeen[0] /\ solError = minSeen[p]

\* x lies in [range_lo[d], range_hi[d]]
InRange(d, x) == Le(settings.range_lo[d], x) /\ Le(x, settings.range_hi[d])

\* x lies below range_lo[d] or above range_hi[d]
Outside(d, x) == Lt(x, settings.range_lo[d]) \/ Gt(x, settings.range_hi[d])

\* some particle update of the main loop has happened
Updated == pc \in {"sweep", "loop", "done"} /\ calls > settings.size

\* C4: under the Clamp policy every coordinate of every position lies in
\* [range_lo[d], range_hi[d]] after every particle update, and a coordinate
\* whose unclamped new position was outside that interval has velocity 0.
C4_ClampKeepsPositionsInRange ==
    (settings.clamp_pos # 0 /\ Updated) =>
        \A p \in Particles(settings), d \in Dims(settings) :
            /\ InRange(d, pos[p][d])
            /\ (lastUpd = p /\ Outside(d, raw[d])) => vel[p][d] = 0

\* the integer multiples of the range an overshoot of the model can span
Multiples == -8 .. 8

\* C5: under the Periodic policy every coordinate of every position lies in
\* [range_lo[d], range_hi[d]] after every particle update, and a wrapped
\* coordinate differs from the unwrapped one by an integer multiple of
\* range_hi[d] - range_lo[d].
C5_PeriodicKeepsPositionsInRange ==
    (settings.clamp_pos = 0 /\ Updated) =>
        \A p \in Particles(settings), d \in Dims(settings) :
            /\ InRange(d, pos[p][d])
            /\ (lastUpd = p /\ Outside(d, raw[d])) =>
                  \E k \in Multiples :
                      pos[p][d] - raw[d] = k * (settings.range_hi[d] - settings.range_lo[d])

\* the particles that inform particle j according to the connectivity matrix
Informers(j) == {p \in Particles(settings) : comm[p * settings.size + j] # 0}

\* the connectivity matrix was built by the ring topology for three particles or more
RingBuilt ==
    /\ settings.nhood_strategy = PSO_NHOOD_RING
    /\ settings.size >= 3
    /\ pc # "setup"

\* C6: with the ring topology and three particles or more, at every point of
\* the run the informers of particle j are exactly j-1, j and j+1 modulo the
\* swarm size, three distinct particles.
C6_RingInformersFixed ==
    RingBuilt =>
        \A j \in Particles(settings) :
            /\ Informers(j) = {(j + settings.size - 1) % settings.size, j,
                               (j + 1) % settings.size}
            /\ Cardinality(Informers(j)) = 3

\* a ring that went through every iteration of the main loop
C6_Witness == RingBuilt /\ pc = "done" /\ step = MaxSteps /\ calls > settings.size

\* the random topology has computed the informants of the current iteration
RandomInformed == settings.nhood_strategy = PSO_NHOOD_RANDOM /\ pc = "sweep"

\* C7: with the random topology the matrix is regenerated at the start of an
\* iteration exactly when it is the first iteration or the previous iteration
\* did not lower solution->error; otherwise the iteration uses the matrix the
\* previous iteration used.
C7_RandomRegeneratedOnStagnation ==
    RandomInformed =>
        /\ regen <=> (step = 0 \/ ~lowered)
        /\ (step > 0 /\ lowered) => comm = commPrev

\* an iteration that follows one that lowered solution->error: the matrix is
\* the one that iteration used
C7_Witness ==
    /\ RandomInformed
    /\ step >= 1
    /\ lowered
    /\ ~regen
    /\ comm = commPrev

\* the Result holds the best of the initialization
ResultIsInitBest ==
    /\ solError = MinOf({minSeen[p] : p \in Particles(settings)})
    /\ \E p \in Particles(settings) : minSeen[p] = solError /\ gbest \in argSeen[p]

\* what holds when pso_solve has left its loop
Terminal ==
    /\ outcome \in {"GoalReached", "Exhausted"}
    /\ outcome = "GoalReached" =>
          /\ Le(solError, settings.goal)
          /\ step < settings.steps
          /\ passed = step
          /\ calls = settings.size * (step + 1)
    /\ outcome = "Exhausted" =>
          /\ step = settings.steps
          /\ passed = settings.steps
          /\ calls = settings.size * (settings.steps + 1)
    /\ settings.steps = 0 => ResultIsInitBest

\* C8: pso_solve terminates, either at the first goal test that finds
\* solution->error at or below the goal, with no particle update and no call
\* of obj_fun in that iteration or after it, or after exactly steps full
\* sweeps, every goal test having found solution->error above the goal; with
\* steps = 0 the Result is the best of the initialization.
\* (A sweep is entered only with solution->error above the goal at its start.)
C8_TerminatesGoalOrExhausted ==
    /\ <>(pc = "done")
    /\ [][/\ (pc' = "done") => Terminal'
          /\ (pc' = "sweep") => Gt(errStart', settings'.goal) /\ passed' = step' + 1
          /\ (pc = "done") => UNCHANGED <<calls, pos, solError, gbest>>]_vars

\* a run that reached the goal in the middle of its step budget
C8_Witness ==
    /\ pc = "done"
    /\ outcome = "GoalReached"
    /\ step = 1
    /\ settings.steps = MaxSteps

\* C9: obj_fun is called once per particle in the initialization and once per
\* particle in every executed iteration, each time on the particle's position
\* after all its coordinates were moved and boundary-handled.
C9_ObjectiveCalledOncePerParticle ==
    /\ calls = (IF pc = "setup" THEN 0
                ELSE IF pc = "init" THEN i
                ELSE IF pc = "sweep" THEN settings.size * (step + 1) + i
                ELSE settings.size * (step + 1))
    /\ lastUpd >= 0 => evalArg = pos[lastUpd]

\* a run in MaxDim dimensions that executed one iteration
C9_Witness ==
    /\ pc = "done"
    /\ settings.dim = MaxDim
    /\ step = 1
    /\ calls = 2 * settings.size
    /\ \E p \in Particles(settings) : pos[p][0] # pos[p][1]

\* C10 as stated: pso_solve leaves every field of the settings as it was.
C10_SettingsUnchanged == pc = "done" => settings = settings0

\* the index of the last iteration pso_solve entered
LastEntered == IF outcome = "GoalReached" THEN step ELSE settings0.steps - 1

\* C10, amended: pso_solve leaves every field of the settings but step as it
\* was; step holds the index of the last iteration entered, and is left as it
\* was when no iteration was entered.
C10_SettingsUnchangedButStep ==
    /\ [settings EXCEPT !.step = settings0.step] = settings0
    /\ pc = "done" =>
          settings.step = (IF settings0.steps <= 0 THEN settings0.step ELSE LastEntered)

\* a run that returned with the step field overwritten
C10_Witness == pc = "done" /\ settings.step # settings0.step /\ settings.step = MaxSteps - 1

\* ------------------------------------------------- invalid configurations
\* the settings c with the two ends of every range exchanged
Reversed(c) == [c EXCEPT !.range_lo = c.range_hi, !.range_hi = c.range_lo]

\* settings no swarm can be built for: no particle or a negative number of
\* them, no dimension, a lower bound above the upper bound
InvalidConfigs ==
    Family(1, {0, -1}, {1}, {0, 1}, {PSO_NHOOD_GLOBAL, PSO_NHOOD_RING}, {PSO_W_CONST})
    \cup Family(0, {SmallSize}, {1}, {0, 1}, {PSO_NHOOD_GLOBAL}, {PSO_W_CONST})
    \cup {Reversed(c) : c \in Family(1, {SmallSize}, {1}, {0, 1}, {PSO_NHOOD_GLOBAL},
                                      {PSO_W_CONST})}

\* pso_solve called with an invalid configuration
InvalidSpec == InitWith(InvalidConfigs) /\ [][Next]_vars

Invalid(s) ==
    \/ s.dim <= 0
    \/ s.size <= 0
    \/ \E d \in Dims(s) : s.range_lo[d] > s.range_hi[d]

\* C11: with an invalid configuration (dim <= 0, size <= 0 or a lower bound
\* above the upper bound) no step of pso_solve allocates a block, calls
\* obj_fun or writes the Result, and pso_solve ends with a ConfigurationError.
C11_InvalidConfigurationRejected ==
    [][Invalid(settings0) =>
          /\ heap' = {}
          /\ calls' = 0
          /\ solError' = solError /\ gbest' = gbest
          /\ (pc' = "done") => outcome' = "ConfigurationError"]_vars

\* --------------------------------------------------- anomalous objectives
\* an objective that returns NaN or infinity at some points
AnomalousEnv == [objVals |-> AnomalousVals, oom |-> NoFailure]

AnomalyConfigs ==
    Family(1, {SmallSize}, 0 .. MaxSteps, {1}, {PSO_NHOOD_GLOBAL}, {PSO_W_CONST})

\* pso_solve called with such an objective
AnomalySpec == InitIn(AnomalyConfigs, {AnomalousEnv}) /\ [][Next]_vars

\* C12: a NaN or infinite value of obj_fun counts as +infinity: the personal
\* best of a particle is the least finite value obj_fun returned for it, at a
\* position where it returned it, as soon as there is one (and an anomalous
\* value until then), and solution->error is the least finite value returned
\* for any particle.
C12_AnomalousFitnessIsInfinity ==
    /\ \A p \in Particles(settings) :
          Initialized(p) =>
              IF minSeen[p] < DBL_MAX
              THEN fit_b[p] = minSeen[p] /\ pos_b[p] \in argSeen[p]
              ELSE ~IsFinite(fit_b[p])
    /\ (pc \in {"loop", "sweep", "done"}) =>
          solError = MinOf({minSeen[p] : p \in Particles(settings)})

\* ---------------------------------------------------- allocation failures
\* the surroundings in which one malloc call of pso_solve returns NULL: the
\* call for a vector, for the row pointers of a matrix (row -1) or for one of
\* its rows
OomEnvs ==
    {[objVals |-> FitVals, oom |-> [blk |-> b, row |-> r]] :
        b \in {"fit", "fit_b", "comm"}, r \in {-1}}
    \cup {[objVals |-> FitVals, oom |-> [blk |-> b, row |-> r]] :
              b \in Matrices, r \in -1 .. (SmallSize - 1)}

AllocConfigs ==
    Family(1, {SmallSize}, {0, 1}, {1}, {PSO_NHOOD_GLOBAL, PSO_NHOOD_RING}, {PSO_W_CONST})

\* pso_solve called when memory runs out
AllocSpec == InitIn(AllocConfigs, OomEnvs) /\ [][Next]_vars

\* C13: when an allocation of pso_solve fails, no null pointer is
\* dereferenced, no partly built swarm is used (no particle is initialized or
\* evaluated), pso_solve returns with the failure reported, and every block it
\* got is freed.
C13_AllocationFailureHandled ==
    env.oom # NoFailure =>
        /\ fault = "none"
        /\ pc \in {"setup", "done"}
        /\ calls = 0
        /\ (pc = "done") => outcome = "ResourceExhaustion" /\ heap = {}

\* ------------------------------------------------------------ the factory
\* the integer part of the square root of n
Isqrt(n) == CHOOSE k \in 0 .. n : k * k <= n /\ (k + 1) * (k + 1) > n

\* (mutant) the size is not capped
pso_calc_swarm_size_uncapped(dim) == 10 + Isqrt(4 * dim)

\* int size = 10. + 2. * sqrt(dim): the conversion to int drops the fraction,
\* and the integer part of 2*sqrt(dim) is that of sqrt(4*dim)
pso_calc_swarm_size(dim) ==
    LET size == 10 + Isqrt(4 * dim)
    IN  IF size > PSO_MAX_SIZE THEN PSO_MAX_SIZE ELSE size

\* whether malloc hands out a block of n elements asked for as block b: not when
\* memory runs out at this call, not for a negative n (the size wraps around
\* to more than there is); for n = 0 it may return NULL or a block
MallocGives(e, b, n) ==
    IF e.oom.blk = b \/ n < 0 THEN {FALSE}
    ELSE IF n = 0 THEN {TRUE, FALSE}
    ELSE {TRUE}

\* the structure pso_settings_new fills in for dim, range_lo and range_hi; it
\* leaves the field step as malloc delivered it (1e-5, the goal, is 0 on the grid)
NewSettings(a, junk) ==
    [dim |-> a.dim,
     range_lo |-> [d \in 0 .. (a.dim - 1) |-> a.range_lo],
     range_hi |-> [d \in 0 .. (a.dim - 1) |-> a.range_hi],
     goal |-> 0,
     size |-> pso_calc_swarm_size(a.dim),
     print_every |-> 1000,
     steps |-> 100000,
     step |-> junk,
     c1 |-> DefaultC,
     c2 |-> DefaultC,
     w_max |-> PSO_INERTIA,
     w_min |-> DefaultWMin,
     clamp_pos |-> 1,
     nhood_strategy |-> PSO_NHOOD_RING,
     nhood_size |-> 5,
     w_strategy |-> PSO_W_LIN_DEC]

\* pso_settings_new.  When the second array cannot be had, the structure is
\* freed and its field range_lo is read afterwards to free the first array:
\* the pointer read may be the old one (the array is freed), NULL (the array
\* leaks) or anything else (free aborts)
SettingsNew ==
    /\ pc = "new"
    /\ \E lo \in MallocGives(env, "range_lo", newArgs.dim),
          hi \in MallocGives(env, "range_hi", newArgs.dim),
          junk \in {-1, 0},
          stale \in {"freed", "leaked", "aborted"} :
          IF env.oom.blk = "settings" \/ ~lo
          THEN /\ pc' = "null"
               /\ heap' = {}
               /\ UNCHANGED <<settings, fault>>
          ELSE IF ~hi
          THEN /\ pc' = IF stale = "aborted" THEN "crashed" ELSE "null"
               /\ heap' = IF stale = "freed" THEN {} ELSE {"range_lo"}
               /\ fault' = "use_after_free"
               /\ UNCHANGED settings
          ELSE /\ pc' = "made"
               /\ heap' = {"settings", "range_lo", "range_hi"}
               /\ settings' = NewSettings(newArgs, junk)
               /\ UNCHANGED fault
    /\ UNCHANGED <<solError, gbest, pos, vel, pos_b, fit, fit_b, pos_nb, comm,
                   improved, w, step, i, settings0, calls, evalArg, minSeen,
                   argSeen, raw, lastUpd, regen, errStart, lowered, commPrev,
                   passed, outcome, nbUsed, env, newArgs>>

\* pso_settings_free
SettingsFree ==
    /\ pc = "made"
    /\ pc' = "freed"
    /\ heap' = {}
    /\ UNCHANGED <<settings, solError, gbest, pos, vel, pos_b, fit, fit_b, pos_nb,
                   comm, improved, w, step, i, settings0, calls, evalArg, minSeen,
                   argSeen, raw, lastUpd, regen, errStart, lowered, commPrev,
                   passed, outcome, nbUsed, env, fault, newArgs>>

\* the dimensions the factory is called with: the small ones, none and a
\* negative one, and those around the cap of the swarm size
NewDims == (-1 .. MaxNewDim) \cup {2024, 2025, 2070, 2071, 2500}

\* the surroundings of the call: enough memory, or one malloc call failing
NewEnvs ==
    {[objVals |-> FitVals, oom |-> [blk |-> b, row |-> -1]] :
        b \in {"none", "settings", "range_lo", "range_hi"}}

\* the state at the call of pso_settings_new: no structure and no swarm yet
FactoryInit ==
    /\ newArgs \in [dim : NewDims, range_lo : {0}, range_hi : {0, 2 * HalfRange}]
    /\ env \in NewEnvs
    /\ pc = "new"
    /\ heap = {}
    /\ fault = "none"
    /\ settings = <<>> /\ settings0 = <<>>
    /\ solError = 0 /\ gbest = <<>>
    /\ pos = <<>> /\ vel = <<>> /\ pos_b = <<>> /\ pos_nb = <<>>
    /\ fit = <<>> /\ fit_b = <<>> /\ comm = <<>> /\ commPrev = <<>>
    /\ improved = 0 /\ w = PSO_INERTIA /\ step = 0 /\ i = 0
    /\ calls = 0 /\ evalArg = <<>> /\ minSeen = <<>> /\ argSeen = <<>>
    /\ raw = <<>> /\ nbUsed = <<>> /\ lastUpd = -1
    /\ regen = FALSE /\ errStart = 0 /\ lowered = FALSE /\ passed = 0
    /\ outcome = "running"

FactoryNext == SettingsNew \/ SettingsFree

FactorySpec == FactoryInit /\ [][FactoryNext]_vars

\* pso_settings_new returned a structure for a dimension above 0
Made == pc = "made" /\ newArgs.dim > 0

\* the integer nearest to the square root of n
NearestSqrt(n) == CHOOSE k \in 0 .. n : k * k - k < n /\ n <= k * k + k

\* C14 as stated: the default swarm size is min(100, round(10 + 2*sqrt(dim))),
\* rounded to the nearest integer.
C14_SwarmSizeRounded ==
    Made =>
        settings.size = (IF 10 + NearestSqrt(4 * newArgs.dim) > 100 THEN 100
                         ELSE 10 + NearestSqrt(4 * newArgs.dim))

\* C14, amended: the default swarm size is min(100, floor(10 + 2*sqrt(dim))),
\* the fraction dropped; it never exceeds 100.
C14_SwarmSizeTruncated ==
    Made =>
        /\ settings.size <= 100
        /\ \E k \in 0 .. (4 * newArgs.dim) :
              /\ k * k <= 4 * newArgs.dim
              /\ 4 * newArgs.dim < (k + 1) * (k + 1)
              /\ settings.size = (IF 10 + k > 100 THEN 100 ELSE 10 + k)

\* dim = 2: 10 + 2*sqrt(2) = 12.83 gives 12 particles, not 13
C14_Witness == Made /\ newArgs.dim = 2 /\ settings.size = 12

\* ------------------------------------------------------ informant choice
\* inform has just run under a topology with a connectivity matrix
JustInformed ==
    /\ settings.nhood_strategy \in {PSO_NHOOD_RING, PSO_NHOOD_RANDOM}
    /\ pc = "sweep"
    /\ lastUpd = -1

\* the lowest personal best fitness among the informers of j
LowestFit(j) == MinOf({fit_b[p] : p \in Informers(j)})

\* the informers of j that have it
Lowest(j) == {p \in Informers(j) : fit_b[p] = LowestFit(j)}

\* C15 as stated: the informant position of j is the personal best position
\* of the informer of j with the lowest personal best fitness, the one with
\* the smallest index when several tie, j itself being among them or not.
C15_SmallestIndexWinsTies ==
    JustInformed =>
        \A j \in Particles(settings) : pos_nb[j] = pos_b[MinOf(Lowest(j))]

\* C15, amended: the informant position of j is the personal best position of
\* the informer of j with the lowest personal best fitness; when several tie,
\* it is j itself if j is among them and the one with the smallest index
\* otherwise.
C15_SelfThenSmallestIndexWinsTies ==
    JustInformed =>
        \A j \in Particles(settings) :
            /\ j \in Informers(j)
            /\ pos_nb[j] = pos_b[IF j \in Lowest(j) THEN j ELSE MinOf(Lowest(j))]

\* a particle that ties at the lowest fitness with an informer of smaller
\* index and another position, and keeps its own position as informant
C15_Witness ==
    /\ JustInformed
    /\ \E j \in Particles(settings) :
          \E p \in Lowest(j) :
              /\ p < j /\ j \in Lowest(j)
              /\ pos_b[p] # pos_b[j]
              /\ pos_nb[j] = pos_b[j]

\* ------------------------------------------------------------- the inertia
\* C16: with steps >= 1 the linearly decreasing inertia of every iteration is
\* computed without a division by zero and is a weight in [w_min, w_max]: with
\* decay = floor(3*steps/4) it is w_min + (w_max - w_min)*(decay - step)/decay
\* when step <= decay and decay > 0, and w_min when step > decay or decay = 0.
C16_LinDecInertiaDefined ==
    (settings.w_strategy = PSO_W_LIN_DEC /\ pc = "sweep" /\ settings.steps >= 1) =>
        LET decay == (3 * settings.steps) \div 4
        IN  /\ w # NaN
            /\ settings.w_min <= w /\ w <= settings.w_max
            /\ w = (IF step > decay \/ decay = 0 THEN settings.w_min
                    ELSE settings.w_min
                         + ((settings.w_max - settings.w_min) * (decay - step)) \div decay)

\* ------------------------------------------------- the informant snapshot
\* the informant positions that follow from the connectivity matrix c, the
\* personal bests pb with their fitness fb, and the global best g
Snapshot(c, pb, fb, g) ==
    [j \in Particles(settings) |->
        IF settings.nhood_strategy \in {PSO_NHOOD_RING, PSO_NHOOD_RANDOM}
        THEN LET inf == {p \in Particles(settings) : c[p * settings.size + j] # 0}
                 low == {p \in inf : \A q \in inf : fb[p] <= fb[q]}
             IN  pb[IF j \in low THEN j ELSE MinOf(low)]
        ELSE g]

\* C17: the informant positions of an iteration are computed once, before any
\* particle is moved, from the personal bests (under the global topology: the
\* global best position) as they stand at the start of the iteration; no
\* particle update of the sweep changes them, and the velocity update of
\* particle i reads the one computed for i, whatever the particles updated
\* before it improved.
C17_InformantsFrozenForTheSweep ==
    [][/\ (pc = "loop" /\ pc' = "sweep") =>
              pos_nb' = Snapshot(comm', pos_b, fit_b, gbest)
       /\ (pc = "sweep" /\ pc' = "sweep") =>
              pos_nb' = pos_nb /\ nbUsed' = pos_nb[i]]_vars

\* under the global topology the first particle of the sweep moved the global
\* best, and the second one was still drawn to the global best of the start
C17_Witness ==
    /\ settings.nhood_strategy = PSO_NHOOD_GLOBAL
    /\ pc = "sweep" /\ lastUpd = 1
    /\ Lt(solError, errStart) /\ Gt(fit[1], solError)
    /\ gbest = pos[0]
    /\ nbUsed # gbest
    /\ nbUsed = pos_nb[1]

\* ------------------------------------------------------ small ring swarms
\* rings of one particle and more
RingConfigs ==
    Family(1, 1 .. RingSize, {1}, {1}, {PSO_NHOOD_RING}, {PSO_W_CONST})

RingSpec == InitWith(RingConfigs) /\ [][Next]_vars

\* every index of comm that inform reads
InformReads(n) == {p * n + j : p \in 0 .. (n - 1), j \in 0 .. (n - 1)}

\* C18: for every swarm size from 1 on, init_comm_ring and inform access comm
\* only at indices k with 0 <= k < size*size.
C18_RingIndicesInBounds ==
    (settings.nhood_strategy = PSO_NHOOD_RING /\ settings.size >= 1 /\ pc # "setup") =>
        /\ fault # "out_of_bounds"
        /\ (RingAccesses(settings.size) \cup InformReads(settings.size))
               \subseteq 0 .. (settings.size * settings.size - 1)

\* ------------------------------------------------------------- the Result
\* C19: when the initialization is over and at the end of every iteration,
\* solution->error is the least personal best fitness of the swarm and
\* solution->gbest is the personal best position of a particle that has it.
C19_ResultIsBestPersonalBest ==
    (pc \in {"loop", "done"}) =>
        /\ solError = MinOf({fit_b[p] : p \in Particles(settings)})
        /\ \E p \in Particles(settings) : fit_b[p] = solError /\ pos_b[p] = gbest

\* an iteration in which a particle other than the first lowered the error
\* at a position away from the first particle's personal best
C19_Witness ==
    /\ pc = "loop" /\ step >= 1 /\ lowered
    /\ \E p \in Particles(settings) :
          /\ p > 0
          /\ fit_b[p] = solError /\ pos_b[p] = gbest
          /\ Gt(fit_b[0], solError) /\ pos_b[0] # gbest

====
